---- MODULE Spec2Model ----
(***************************************************************************)
(* Model of the inline markup resolver of the Listening plugin             *)
(* (src/main.ts, parseAndRenderLine / applyRules).                         *)
(*                                                                         *)
(* A text is a sequence of one-character strings.  Offsets are 0-based as  *)
(* in the source; text[k + 1] is the character at offset k.                *)
(*                                                                         *)
(* Two more parts of the plugin are modelled next to it: the loading of    *)
(* the custom font (loadAndApplyCustomFont and its callers) and the        *)
(* debounced font size field of the settings tab.  Each part has its own   *)
(* next-state relation; all start from the same initial state.             *)
(***************************************************************************)
EXTENDS Integers, Sequences, FiniteSets, TLC

\* the resolver
VARIABLES source, line, pc, stack, dom, removed, pass

\* the plugin: settings, font state, the style of a rendered block, the font
\* files on disk and the asynchronous handlers under way
VARIABLES settings, currentFontFamilyName, styleEl, block, restyles, files,
          tasks

\* the debounced font size field: the clock, the closure variable timeout,
\* the timers pending in the window, and the calls and runs so far
VARIABLES now, timeout, timers, calls, runs

resolverVars == <<source, line, pc, stack, dom, removed, pass>>

pluginVars ==
  <<settings, currentFontFamilyName, styleEl, block, restyles, files, tasks>>

timerVars == <<now, timeout, timers, calls, runs>>

vars == <<resolverVars, pluginVars, timerVars>>

\* ---------------------------------------------------------------- bounds
MaxLen == 8

\* ---------------------------------------------------------------- rule table
\* The rule table, in table order.  delim is the literal delimiter of the
\* regex  delim(.*?)delim ; tag is rule.tag ("span" when the rule has none);
\* style is rule.style ("" when the rule has none).
rules ==
  << [delim |-> <<"~", "~">>, tag |-> "del",    style |-> ""],
     [delim |-> <<"_", "_">>, tag |-> "u",      style |-> ""],
     [delim |-> <<"*", "*">>, tag |-> "strong", style |-> ""],
     [delim |-> <<"*">>,      tag |-> "em",     style |-> ""],
     [delim |-> <<"+", "+">>, tag |-> "span",   style |-> "font-size: 1.5em;"],
     [delim |-> <<"-", "-">>, tag |-> "span",   style |-> "font-size: 0.5em;"] >>

\* Characters that "." does not match in a JavaScript regex without the s
\* flag (U+2028 and U+2029 behave as "\r" does and are left out of the inputs).
LineTerminators == {"\n", "\r"}

Dot(c) == c \notin LineTerminators

\* ---------------------------------------------------------------- strings
Min(S) == CHOOSE x \in S : \A y \in S : x <= y

Elems(s) == { s[k] : k \in 1..Len(s) }

\* text.substring(from, to) with 0 <= from <= to <= text.length
Substring(text, from, to) == SubSeq(text, from + 1, to)

\* the literal d occurs in text at offset i
HasAt(text, d, i) ==
  /\ i >= 0
  /\ i + Len(d) <= Len(text)
  /\ \A k \in 1..Len(d) : text[i + k] = d[k]

\* ---------------------------------------------------------------- discovery
\* Offsets j at which the closing delimiter can stand for an opening one at i:
\* everything in between is matched by "."
Closings(text, d, i) ==
  { j \in (i + Len(d))..(Len(text) - Len(d)) :
      /\ HasAt(text, d, j)
      /\ \A k \in (i + Len(d))..(j - 1) : Dot(text[k + 1]) }

\* Offsets >= lastIndex at which the regex of rule r matches
Openings(text, d, lastIndex) ==
  { i \in lastIndex..(Len(text) - 1) :
      HasAt(text, d, i) /\ Closings(text, d, i) # {} }

\* mutant: the payload is match[0], the whole match, instead of match[1]
ExecWholeMatch(text, r, lastIndex) ==
  LET d == rules[r].delim
      i == Min(Openings(text, d, lastIndex))
      j == Min(Closings(text, d, i))
  IN  [index  |-> i,
       length |-> j + Len(d) - i,
       rule   |-> r,
       cap    |-> Substring(text, i, j + Len(d))]

\* regex.exec(text) with regex.lastIndex = lastIndex: the leftmost match, its
\* lazy group taking the shortest payload.  Precondition: Openings # {}.
Exec(text, r, lastIndex) ==
  LET d == rules[r].delim
      i == Min(Openings(text, d, lastIndex))
      j == Min(Closings(text, d, i))
  IN  [index  |-> i,
       length |-> j + Len(d) - i,
       rule   |-> r,
       cap    |-> Substring(text, i + Len(d), j)]

\* the while loop of one rule: every successive match of its regex
RECURSIVE ExecAll(_, _, _)
ExecAll(text, r, lastIndex) ==
  IF Openings(text, rules[r].delim, lastIndex) = {}
  THEN <<>>
  ELSE LET m == Exec(text, r, lastIndex)
       IN  <<m>> \o ExecAll(text, r, m.index + m.length)

\* rules.forEach: the matches of rule 1, then of rule 2, ...
RECURSIVE Discover(_, _)
Discover(text, r) ==
  IF r > Len(rules) THEN <<>>
  ELSE ExecAll(text, r, 0) \o Discover(text, r + 1)

\* ---------------------------------------------------------------- ordering
\* mutant: ties on the start offset are broken by length ascending
CompareShortFirst(a, b) ==
  IF a.index - b.index # 0 THEN a.index - b.index ELSE a.length - b.length

\* (a, b) => a.index - b.index || b.length - a.length
Compare(a, b) ==
  IF a.index - b.index # 0 THEN a.index - b.index ELSE b.length - a.length

\* Array.prototype.sort is stable: equal elements keep their order.
RECURSIVE Insert(_, _)
Insert(s, x) ==
  IF s = <<>> THEN <<x>>
  ELSE IF Compare(Head(s), x) <= 0
       THEN <<Head(s)>> \o Insert(Tail(s), x)
       ELSE <<x>> \o s

RECURSIVE SortFrom(_, _)
SortFrom(acc, s) ==
  IF s = <<>> THEN acc ELSE SortFrom(Insert(acc, Head(s)), Tail(s))

\* mutant: the candidates are left in discovery order
SortUnsorted(s) == s

Sort(s) == SortFrom(<<>>, s)

\* ---------------------------------------------------------------- selection
\* mutant: the comparison of the overlap test is turned around
isOverlappingFlipped(processedRanges, start, end) ==
  \E n \in 1..Len(processedRanges) :
    LET range == processedRanges[n]
        lo == IF start > range.start THEN start ELSE range.start
        hi == IF end < range.end THEN end ELSE range.end
    IN  lo > hi

isOverlapping(processedRanges, start, end) ==
  \E n \in 1..Len(processedRanges) :
    LET range == processedRanges[n]
        lo == IF start > range.start THEN start ELSE range.start
        hi == IF end < range.end THEN end ELSE range.end
    IN  lo < hi

\* mutant: the literal substring starts one character late
LiteralOffByOne(text, from, to) ==
  [isText |-> TRUE, text |-> Substring(text, from + 1, to), rule |-> 0,
   from |-> from, to |-> to]

\* a literal part; from/to are the arguments of the substring call
Literal(text, from, to) ==
  [isText |-> TRUE, text |-> Substring(text, from, to), rule |-> 0,
   from |-> from, to |-> to]

\* a part { text: match[1], rule }; from/to are matchStart/matchEnd
Styled(m) ==
  [isText |-> FALSE, text |-> m.cap, rule |-> m.rule,
   from |-> m.index, to |-> m.index + m.length]

\* one iteration of  for (const { index, length, rule, match } of allMatches)
SelectOne(text, st, m) ==
  LET matchStart == m.index
      matchEnd == m.index + m.length
  IN  IF isOverlapping(st.processedRanges, matchStart, matchEnd) THEN st
      ELSE [lastIndex |-> matchEnd,
            parts |-> (IF matchStart > st.lastIndex
                       THEN Append(st.parts, Literal(text, st.lastIndex, matchStart))
                       ELSE st.parts) \o <<Styled(m)>>,
            processedRanges |->
              Append(st.processedRanges, [start |-> matchStart, end |-> matchEnd])]

RECURSIVE SelectLoop(_, _, _)
SelectLoop(text, st, ms) ==
  IF ms = <<>> THEN st
  ELSE SelectLoop(text, SelectOne(text, st, Head(ms)), Tail(ms))

\* mutant: the text after the last selected range is never emitted
TrailingDropped(text, st) == st

\* mutant: the trailing text is emitted only after some selected range
TrailingOnlyAfterMatch(text, st) ==
  IF st.lastIndex > 0 /\ st.lastIndex < Len(text)
  THEN [st EXCEPT !.parts = Append(@, Literal(text, st.lastIndex, Len(text)))]
  ELSE st

\* the trailing  if (lastIndex < text.length) parts.push(text.substring(lastIndex))
Trailing(text, st) ==
  IF st.lastIndex < Len(text)
  THEN [st EXCEPT !.parts = Append(@, Literal(text, st.lastIndex, Len(text)))]
  ELSE st

\* The locals of one invocation applyRules(text, parentEl) when it reaches
\* parts.forEach; off is the offset of text within the rendered line.
Frame(text, el, off) ==
  LET allMatches == Sort(Discover(text, 1))
      st == Trailing(text,
              SelectLoop(text,
                [lastIndex |-> 0, parts |-> <<>>, processedRanges |-> <<>>],
                allMatches))
  IN  [text |-> text, parentEl |-> el, off |-> off,
       allMatches |-> allMatches,
       processedRanges |-> st.processedRanges,
       parts |-> st.parts,
       k |-> 1]

\* ---------------------------------------------------------------- inputs
Alphabet == {"*", "~", "a"}

\* lines of a listening block named by the specification and the README
FxOops ==
  <<"*", "*", "o", "o", "p", "s">>

FxBoldAndItalic ==
  <<"*", "*", "b", "o", "l", "d", "*", "*", " ", "a", "n", "d", " ", "*", "i", "t", "a", "l", "i", "c", "*">>

FxNested ==
  <<"*", "*", "b", "o", "l", "d", " ", "*", "a", "n", "d", " ", "i", "t", "a", "l", "i", "c", "*", "_", "_", "t", "o", "o", "_", "_", "*", "*">>

FxDelStrong ==
  <<"~", "~", "*", "*", "x", "*", "*", "~", "~">>

FxAmbiguous ==
  <<"*", "*", "a", "*", " ", "b", "*", "c", "*", "*">>

FxSizes ==
  <<"+", "+", "L", "a", "r", "g", "e", "+", "+", " ", "a", "n", "d", " ", "-", "-", "s", "m", "a", "l", "l", "-", "-">>

FxAdjacent ==
  <<"*", "*", "a", "*", "*", " ", "*", "*", "b", "*", "*">>

FxCarriageReturn ==
  <<"*", "*", "a", "\r", "b", "*", "*">>

Fixtures ==
  { FxOops,
    FxBoldAndItalic,
    FxNested,
    FxDelStrong,
    FxAmbiguous,
    FxSizes,
    FxAdjacent,
    FxCarriageReturn }

Inputs == (UNION { [1..n -> Alphabet] : n \in 0..MaxLen }) \cup Fixtures

\* ---------------------------------------------------------------- the DOM
\* dom[n] is the n-th node created under the paragraph element, which is
\* element 0.  content is the payload the element's recursive call was given.
TextNode(el, part) ==
  [parent |-> el, tag |-> "#text", style |-> "", text |-> part.text,
   content |-> <<>>]

Element(el, part) ==
  [parent |-> el, tag |-> rules[part.rule].tag, style |-> rules[part.rule].style,
   text |-> <<>>, content |-> part.text]

\* the child nodes of element el, in document order
Children(el) ==
  LET RECURSIVE From(_)
      From(n) == IF n > Len(dom) THEN <<>>
                 ELSE IF dom[n].parent = el THEN <<n>> \o From(n + 1)
                 ELSE From(n + 1)
  IN  From(1)

\* el.textContent: the literal leaf text below el, in document order
RECURSIVE LeafText(_)
LeafText(el) ==
  LET RECURSIVE Concat(_)
      Concat(ns) ==
        IF ns = <<>> THEN <<>>
        ELSE (IF dom[Head(ns)].tag = "#text" THEN dom[Head(ns)].text
              ELSE LeafText(Head(ns))) \o Concat(Tail(ns))
  IN  Concat(Children(el))

\* ---------------------------------------------------------------- actions
Top == stack[Len(stack)]

Part == Top.parts[Top.k]

\* offsets, within the rendered line, of the two delimiters of a styled part
DelimiterOffsets(f, part) ==
  LET n == Len(rules[part.rule].delim)
  IN  { f.off + o : o \in (part.from..(part.from + n - 1))
                          \cup ((part.to - n)..(part.to - 1)) }

\* ---------------------------------------------------------------- settings
\* A JavaScript number as far as the font size needs it: an integer, NaN or
\* an infinity (n is then its sign).
Num(n) == [kind |-> "int", n |-> n]

NaN == [kind |-> "nan", n |-> 0]

Infinity == [kind |-> "inf", n |-> 1]

\* the value "DEFAULT" of selectedFontFile, as a text
DEFAULT == <<"D", "E", "F", "A", "U", "L", "T">>

DEFAULT_SETTINGS ==
  [fontFolderPath |-> "", selectedFontFile |-> DEFAULT, fontSize |-> Num(16)]

CUSTOM_FONT_FAMILY_PREFIX == "listening-custom-"

\* this.app.vault.configDir + "/fonts", the folder onload falls back to
FontsFolder == ".obsidian/fonts"

\* the font files the folder holds when the settings tab scans it
FontA == <<"a", ".", "t", "t", "f">>

FontB == <<"B", " ", "b", ".", "O", "T", "F">>

FontFiles == {FontA, FontB}

\* `${this.settings.fontFolderPath}/${this.settings.selectedFontFile}`
FontFilePath(folder, fileName) == <<folder, fileName>>

\* ---------------------------------------------------------------- font names
Uppercase ==
  << "A", "B", "C", "D", "E", "F", "G", "H", "I", "J", "K", "L", "M",
     "N", "O", "P", "Q", "R", "S", "T", "U", "V", "W", "X", "Y", "Z" >>

Lowercase ==
  << "a", "b", "c", "d", "e", "f", "g", "h", "i", "j", "k", "l", "m",
     "n", "o", "p", "q", "r", "s", "t", "u", "v", "w", "x", "y", "z" >>

Digits == <<"0", "1", "2", "3", "4", "5", "6", "7", "8", "9">>

\* String.prototype.toLowerCase
ToLowerCase(text) ==
  [k \in 1..Len(text) |->
     IF \E u \in 1..Len(Uppercase) : Uppercase[u] = text[k]
     THEN Lowercase[CHOOSE u \in 1..Len(Uppercase) : Uppercase[u] = text[k]]
     ELSE text[k]]

\* text.lastIndexOf(c): the last offset of c, or -1
LastIndexOf(text, c) ==
  LET at == { k \in 0..(Len(text) - 1) : text[k + 1] = c }
  IN  IF at = {} THEN -1 ELSE CHOOSE k \in at : \A o \in at : o <= k

\* fontFileName.split(".").pop()?.toLowerCase()
Extension(fileName) ==
  ToLowerCase(SubSeq(fileName, LastIndexOf(fileName, ".") + 2, Len(fileName)))

\* the switch on the extension; "" stands for its default branch
MimeType(extension) ==
  CASE extension = <<"t", "t", "f">> -> "font/truetype"
    [] extension = <<"o", "t", "f">> -> "font/opentype"
    [] extension = <<"w", "o", "f", "f">> -> "font/woff"
    [] extension = <<"w", "o", "f", "f", "2">> -> "font/woff2"
    [] OTHER -> ""

\* fontFileName.substring(0, fontFileName.lastIndexOf(".")); substring takes
\* a negative end as 0
RawFontName(fileName) ==
  LET end == LastIndexOf(fileName, ".")
  IN  Substring(fileName, 0, IF end < 0 THEN 0 ELSE end)

\* rawFontName.replace(/[^a-zA-Z0-9\-]/g, "_")
Sanitized(text) ==
  [k \in 1..Len(text) |->
     IF text[k] \in Elems(Uppercase) \cup Elems(Lowercase) \cup Elems(Digits) \cup {"-"}
     THEN text[k] ELSE "_"]

\* CUSTOM_FONT_FAMILY_PREFIX + the sanitized raw name
FontFamilyName(fileName) ==
  <<CUSTOM_FONT_FAMILY_PREFIX, Sanitized(RawFontName(fileName))>>

\* currentFontFamilyName = null
Null == <<>>

\* readBinary gives the bytes of the file at a path; the bytes of two files
\* differ, so the path stands for them
Bytes(path) == [of |-> path]

arrayBufferToBase64(buffer) == [base64 |-> buffer]

\* the @font-face rule
FontFaceCss(family, mimeType, base64Font) ==
  [family |-> family, mimeType |-> mimeType, src |-> base64Font]

\* ---------------------------------------------------------------- font loading
\* What one step of a handler works on: the font state, the rendered block
\* and the handler itself.  styleEl is the sequence of style elements with
\* the id listening-custom-font-style: none or one.
\* A handler is [kind, stage, at, path, outcomes]: kind "font" is the dropdown
\* onChange, kind "size" the font size update; stage 1 is the load made by
\* saveSettings, stage 2 the explicit second load of the dropdown handler; at
\* is the request it awaits; outcomes lists how its loads ended.
Machine(t) ==
  [name |-> currentFontFamilyName, styleEl |-> styleEl, block |-> block,
   restyles |-> restyles, task |-> t]

removeCss(m) == [m EXCEPT !.styleEl = <<>>]

applyCss(m, css) == [m EXCEPT !.styleEl = <<css>>]

\* updateExistingCodeBlocksStyle, for the one rendered block
updateExistingCodeBlocksStyle(m) ==
  [m EXCEPT !.block =
              [fontFamily |-> IF m.name # Null /\ settings.selectedFontFile # DEFAULT
                              THEN m.name ELSE Null,
               fontSize |-> settings.fontSize],
            !.restyles = @ + 1]

\* mutant: the style element is removed but the family name is kept
ClearedKeepingName(m) == removeCss(m)

\* removeCss(CUSTOM_FONT_STYLE_ID); this.currentFontFamilyName = null
Cleared(m) == [removeCss(m) EXCEPT !.name = Null]

\* the end of every path through loadAndApplyCustomFont: css-change is
\* triggered and the rendered blocks are restyled
LoadEnded(m, outcome) ==
  updateExistingCodeBlocksStyle([m EXCEPT !.task.outcomes = Append(@, outcome)])

RECURSIVE LoadStarted(_)
RECURSIVE Returned(_)

\* loadAndApplyCustomFont from its call to its first request, or to its end
\* when it makes none
LoadStarted(m) ==
  IF settings.selectedFontFile = DEFAULT \/ settings.selectedFontFile = <<>>
  THEN Returned(LoadEnded(Cleared(m), "default"))
  ELSE [m EXCEPT !.task.at = "exists",
                 !.task.path = FontFilePath(settings.fontFolderPath,
                                            settings.selectedFontFile)]

\* loadAndApplyCustomFont has returned: the handler that awaited it goes on
Returned(m) ==
  CASE m.task.kind = "font" /\ m.task.stage = 1 ->
         LoadStarted([m EXCEPT !.task.stage = 2])
    [] m.task.kind = "font" /\ m.task.stage = 2 ->
         [m EXCEPT !.task.at = "done"]
    [] m.task.kind = "size" ->
         [updateExistingCodeBlocksStyle(m) EXCEPT !.task.at = "done"]

\* the answer of adapter.exists arrives
ExistsAnswered(m) ==
  IF m.task.path \in files
  THEN [m EXCEPT !.task.at = "readBinary"]
  ELSE Returned(LoadEnded(Cleared(m), "missing"))

\* the answer of adapter.readBinary arrives (it throws when the file is gone)
ReadBinaryAnswered(m) ==
  IF m.task.path \notin files
  THEN Returned(LoadEnded(Cleared(m), "error"))
  ELSE LET base64Font == arrayBufferToBase64(Bytes(m.task.path))
           fontFileName == settings.selectedFontFile
           mimeType == MimeType(Extension(fontFileName))
       IN  IF mimeType = ""
           THEN Returned(LoadEnded(Cleared(m), "unsupported"))
           ELSE Returned(LoadEnded(
                  applyCss([m EXCEPT !.name = FontFamilyName(fontFileName)],
                           FontFaceCss(FontFamilyName(fontFileName), mimeType,
                                       base64Font)),
                  "applied"))

\* a handler that has just called saveSettings and awaits saveData
NewTask(kind) ==
  [kind |-> kind, stage |-> 1, at |-> "saveData", path |-> <<>>,
   outcomes |-> <<>>]

\* the plugin is loaded and no line has been rendered yet
Init ==
  /\ source = <<>>
  /\ line = <<>>
  /\ pc = "idle"
  /\ stack = <<>>
  /\ dom = <<>>
  /\ removed = {}
  /\ pass = 0
  /\ settings = [DEFAULT_SETTINGS EXCEPT !.fontFolderPath = FontsFolder]
  /\ currentFontFamilyName = Null
  /\ styleEl = <<>>
  /\ block = [fontFamily |-> Null, fontSize |-> DEFAULT_SETTINGS.fontSize]
  /\ restyles = 0
  /\ files = { FontFilePath(FontsFolder, f) : f \in FontFiles }
  /\ tasks = <<>>
  /\ now = 0
  /\ timeout = 0
  /\ timers = {}
  /\ calls = <<>>
  /\ runs = <<>>

\* The block processor renders a line of a listening block: it calls
\* parseAndRenderLine(p, line), which runs applyRules(line, p) up to forEach.
Process ==
  /\ pc = "idle"
  /\ \E l \in Inputs :
       /\ source' = l
       /\ line' = l
       /\ stack' = <<Frame(l, 0, 0)>>
  /\ pc' = "run"
  /\ pass' = 1
  /\ UNCHANGED <<dom, removed>>
  /\ UNCHANGED <<pluginVars, timerVars>>

\* parts.forEach, a string part: parentEl.appendText(part)
AppendText ==
  /\ pc = "run"
  /\ Top.k <= Len(Top.parts)
  /\ Part.isText
  /\ dom' = Append(dom, TextNode(Top.parentEl, Part))
  /\ stack' = [stack EXCEPT ![Len(stack)].k = @ + 1]
  /\ UNCHANGED <<source, line, pc, removed, pass>>
  /\ UNCHANGED <<pluginVars, timerVars>>

\* mutant: the recursive call is given parentEl instead of the new element
CreateElIntoParent ==
  /\ pc = "run"
  /\ Top.k <= Len(Top.parts)
  /\ ~Part.isText
  /\ dom' = Append(dom, Element(Top.parentEl, Part))
  /\ stack' = Append([stack EXCEPT ![Len(stack)].k = @ + 1],
                     Frame(Part.text, Top.parentEl,
                           Top.off + Part.from + Len(rules[Part.rule].delim)))
  /\ removed' = removed \cup DelimiterOffsets(Top, Part)
  /\ UNCHANGED <<source, line, pc, pass>>
  /\ UNCHANGED <<pluginVars, timerVars>>

\* parts.forEach, a styled part: createEl, then applyRules(content, span)
\* up to its own forEach
CreateEl ==
  /\ pc = "run"
  /\ Top.k <= Len(Top.parts)
  /\ ~Part.isText
  /\ dom' = Append(dom, Element(Top.parentEl, Part))
  /\ stack' = Append([stack EXCEPT ![Len(stack)].k = @ + 1],
                     Frame(Part.text, Len(dom) + 1,
                           Top.off + Part.from + Len(rules[Part.rule].delim)))
  /\ removed' = removed \cup DelimiterOffsets(Top, Part)
  /\ UNCHANGED <<source, line, pc, pass>>
  /\ UNCHANGED <<pluginVars, timerVars>>

\* forEach is over: applyRules returns to its caller
Return ==
  /\ pc = "run"
  /\ Top.k > Len(Top.parts)
  /\ stack' = SubSeq(stack, 1, Len(stack) - 1)
  /\ pc' = IF Len(stack) = 1 THEN "done" ELSE "run"
  /\ UNCHANGED <<source, line, dom, removed, pass>>
  /\ UNCHANGED <<pluginVars, timerVars>>

\* The block processor runs again, on the text the rendered paragraph shows:
\* el.empty(), then parseAndRenderLine as above.
Rerender ==
  /\ pc = "done"
  /\ pass = 1
  /\ line' = LeafText(0)
  /\ stack' = <<Frame(line', 0, 0)>>
  /\ dom' = <<>>
  /\ removed' = {}
  /\ pass' = 2
  /\ pc' = "run"
  /\ UNCHANGED source
  /\ UNCHANGED <<pluginVars, timerVars>>

Step == AppendText \/ CreateEl \/ Return

Next == Process \/ AppendText \/ CreateEl \/ Return \/ Rerender

Spec == Init /\ [][Next]_vars

\* applyRules is synchronous: once called it keeps taking steps.  This is
\* WF_vars(Step) with ENABLED <<Step>>_vars written out: a step is possible
\* exactly while an invocation is pending, that is while pc = "run".
FairSpec == Init /\ [][Next]_vars /\ ([]<>(pc # "run") \/ []<><<Step>>_vars)

\* ---------------------------------------------------------------- properties
DelimiterChars == {"~", "_", "*", "+", "-"}

Frames == { stack[n] : n \in 1..Len(stack) }

StyledParts(f) == { n \in 1..Len(f.parts) : ~f.parts[n].isText }

\* the literal node appendText makes of the text t under the paragraph
LiteralOf(t) ==
  [parent |-> 0, tag |-> "#text", style |-> "", text |-> t, content |-> <<>>]

\* text without the characters at the offsets in rm
Strip(text, rm) ==
  LET RECURSIVE From(_)
      From(k) == IF k >= Len(text) THEN <<>>
                 ELSE (IF k \in rm THEN <<>> ELSE <<text[k + 1]>>) \o From(k + 1)
  IN  From(0)

\* C1: once a line is rendered, the literal leaf text of the whole output, in
\* document order, is the line without the characters at the offsets of the
\* two delimiters of every selected match (at every depth): those are
\* removed, every other character is kept, in order.
C1_RoundTrip ==
  pc = "done" => LeafText(0) = Strip(line, removed)

\* C1 witness: a finished render with a container nested in a container and
\* literal text left over
C1_Witness ==
  /\ pc = "done"
  /\ pass = 1
  /\ \E n \in 1..Len(dom) : dom[n].tag # "#text" /\ dom[n].parent # 0
  /\ LeafText(0) # <<>>
  /\ Cardinality(removed) >= 4

\* a lone ** followed by text without any delimiter character
LoneStrong(text) ==
  /\ Len(text) > 2
  /\ text[1] = "*" /\ text[2] = "*"
  /\ \A k \in 3..Len(text) : text[k] \notin DelimiterChars

\* C2: a line made of an opening ** with no closing pair (such as "**oops")
\* gives no candidate for it and is rendered as one literal node holding the
\* line unchanged.
C2_Unterminated ==
  (pc = "done" /\ LoneStrong(line)) => dom = <<LiteralOf(line)>>

\* C3: in every invocation of applyRules, at every depth, the emitted parts
\* tile the scanned text: the first starts at 0, each starts where the
\* previous one ended, the last ends at text.length, none is empty, and a
\* literal part is the substring of its span.
Tiles(f) ==
  IF f.parts = <<>> THEN Len(f.text) = 0
  ELSE /\ f.parts[1].from = 0
       /\ f.parts[Len(f.parts)].to = Len(f.text)
       /\ \A n \in 1..(Len(f.parts) - 1) : f.parts[n + 1].from = f.parts[n].to
       /\ \A n \in 1..Len(f.parts) :
            /\ f.parts[n].from < f.parts[n].to
            /\ f.parts[n].isText =>
                 f.parts[n].text = Substring(f.text, f.parts[n].from, f.parts[n].to)

C3_Partition ==
  \A f \in Frames : Tiles(f)

\* C3 witness: a nested invocation whose parts are a literal, a match and a
\* literal again
C3_Witness ==
  /\ Len(stack) >= 2
  /\ Len(Top.parts) >= 3
  /\ Top.parts[1].isText /\ ~Top.parts[2].isText /\ Top.parts[3].isText

\* C4: in every invocation the selected ranges are pairwise disjoint, each
\* styled part is one whole candidate (its span, rule and payload) and there
\* is one per selected range; "~~**x**~~" is rendered as a deletion holding
\* a strong holding the literal x, and nothing else.
Disjoint(a, b) == a.end <= b.start \/ b.end <= a.start

WholeCandidates(f) ==
  /\ \A n \in StyledParts(f) :
       /\ \E c \in 1..Len(f.allMatches) :
            LET m == f.allMatches[c]
            IN  /\ m.index = f.parts[n].from
                /\ m.index + m.length = f.parts[n].to
                /\ m.rule = f.parts[n].rule
                /\ m.cap = f.parts[n].text
       /\ \E r \in 1..Len(f.processedRanges) :
            f.processedRanges[r] = [start |-> f.parts[n].from, end |-> f.parts[n].to]
  /\ Cardinality(StyledParts(f)) = Len(f.processedRanges)

DelStrongTree ==
  << [parent |-> 0, tag |-> "del", style |-> "", text |-> <<>>,
      content |-> <<"*", "*", "x", "*", "*">>],
     [parent |-> 1, tag |-> "strong", style |-> "", text |-> <<>>,
      content |-> <<"x">>],
     [parent |-> 2, tag |-> "#text", style |-> "", text |-> <<"x">>,
      content |-> <<>>] >>

C4_NonOverlap ==
  /\ \A f \in Frames :
       /\ \A a, b \in 1..Len(f.processedRanges) :
            a # b => Disjoint(f.processedRanges[a], f.processedRanges[b])
       /\ WholeCandidates(f)
  /\ (pc = "done" /\ pass = 1 /\ line = FxDelStrong) => dom = DelStrongTree

\* C4 witness: "~~**x**~~" rendered, three candidates discarded on the way
C4_Witness ==
  /\ pc = "done" /\ pass = 1 /\ line = FxDelStrong
  /\ Len(dom) = 3

\* ---------------------------------------------------------------- priority
\* candidate m of invocation f became a selected range
IsSelected(f, m) ==
  \E n \in StyledParts(f) :
    /\ f.parts[n].from = m.index
    /\ f.parts[n].to = m.index + m.length
    /\ f.parts[n].rule = m.rule

\* pairs <<s, e>> of positions in f.allMatches: a strong and an emphasis
\* candidate starting at the same offset
StrongEmPairs(f) ==
  { p \in (1..Len(f.allMatches)) \X (1..Len(f.allMatches)) :
      /\ rules[f.allMatches[p[1]].rule].tag = "strong"
      /\ rules[f.allMatches[p[2]].rule].tag = "em"
      /\ f.allMatches[p[1]].index = f.allMatches[p[2]].index }

\* a range selected from a smaller start offset covers the start of m
CoveredFromLeft(f, m) ==
  \E r \in 1..Len(f.processedRanges) :
    /\ f.processedRanges[r].start < m.index
    /\ m.index < f.processedRanges[r].end

BoldAndItalicTree ==
  << [parent |-> 0, tag |-> "strong", style |-> "", text |-> <<>>,
      content |-> <<"b", "o", "l", "d">>],
     [parent |-> 1, tag |-> "#text", style |-> "", text |-> <<"b", "o", "l", "d">>,
      content |-> <<>>],
     [parent |-> 0, tag |-> "#text", style |-> "",
      text |-> <<" ", "a", "n", "d", " ">>, content |-> <<>>],
     [parent |-> 0, tag |-> "em", style |-> "", text |-> <<>>,
      content |-> <<"i", "t", "a", "l", "i", "c">>],
     [parent |-> 3 + 1, tag |-> "#text", style |-> "",
      text |-> <<"i", "t", "a", "l", "i", "c">>, content |-> <<>>] >>

BoldAndItalicRendered ==
  (pc = "done" /\ pass = 1 /\ line = FxBoldAndItalic) => dom = BoldAndItalicTree

\* C5 as stated: whenever a strong and an emphasis candidate start at the
\* same offset, the strong one is selected and the emphasis one is not; and
\* "**bold** and *italic*" is rendered as strong(bold), " and ", em(italic).
C5_StrongAlwaysSelected ==
  /\ \A f \in Frames : \A p \in StrongEmPairs(f) :
       /\ IsSelected(f, f.allMatches[p[1]])
       /\ ~IsSelected(f, f.allMatches[p[2]])
  /\ BoldAndItalicRendered

\* C5 amended: whenever a strong and an emphasis candidate start at the same
\* offset, the longer strong one is considered first and the emphasis one is
\* discarded; the strong one is selected unless a range selected from a
\* smaller start offset overlaps it; and "**bold** and *italic*" is rendered
\* as strong(bold), " and ", em(italic), nothing after.
C5_GreedyLeft ==
  /\ \A f \in Frames : \A p \in StrongEmPairs(f) :
       /\ p[1] < p[2]
       /\ f.allMatches[p[1]].length > f.allMatches[p[2]].length
       /\ ~IsSelected(f, f.allMatches[p[2]])
       /\ IsSelected(f, f.allMatches[p[1]]) <=> ~CoveredFromLeft(f, f.allMatches[p[1]])
  /\ BoldAndItalicRendered

\* C5 witness: "**bold** and *italic*" rendered; its first invocation had a
\* strong and an emphasis candidate at offset 0
C5_Witness ==
  /\ pc = "done" /\ pass = 1 /\ line = FxBoldAndItalic
  /\ dom = BoldAndItalicTree
  /\ StrongEmPairs(Frame(line, 0, 0)) # {}

\* ---------------------------------------------------------------- nesting
\* the child nodes cs are, one for one and in order, the parts the whole
\* algorithm (discovery, ordering, selection, trailing literal) gives for text
RenderedFrom(cs, text) ==
  LET parts == Frame(text, 0, 0).parts
  IN  /\ Len(cs) = Len(parts)
      /\ \A n \in 1..Len(parts) :
           IF parts[n].isText
           THEN /\ dom[cs[n]].tag = "#text"
                /\ dom[cs[n]].text = parts[n].text
           ELSE /\ dom[cs[n]].tag = rules[parts[n].rule].tag
                /\ dom[cs[n]].style = rules[parts[n].rule].style
                /\ dom[cs[n]].content = parts[n].text

NestedTree ==
  << [parent |-> 0, tag |-> "strong", style |-> "", text |-> <<>>,
      content |-> SubSeq(FxNested, 3, Len(FxNested) - 2)],
     [parent |-> 1, tag |-> "#text", style |-> "",
      text |-> <<"b", "o", "l", "d", " ">>, content |-> <<>>],
     [parent |-> 1, tag |-> "em", style |-> "", text |-> <<>>,
      content |-> <<"a", "n", "d", " ", "i", "t", "a", "l", "i", "c">>],
     [parent |-> 3, tag |-> "#text", style |-> "",
      text |-> <<"a", "n", "d", " ", "i", "t", "a", "l", "i", "c">>,
      content |-> <<>>],
     [parent |-> 1, tag |-> "u", style |-> "", text |-> <<>>,
      content |-> <<"t", "o", "o">>],
     [parent |-> 5, tag |-> "#text", style |-> "", text |-> <<"t", "o", "o">>,
      content |-> <<>>] >>

\* C6: once a line is rendered, the children of every styled container are
\* exactly what the whole algorithm gives for the container's captured
\* payload (and those of the paragraph what it gives for the line), and
\* "**bold *and italic*__too__**" is one strong container holding the literal
\* "bold ", an emphasis with "and italic" and an underline with "too".
C6_Nesting ==
  pc = "done" =>
    /\ RenderedFrom(Children(0), line)
    /\ \A n \in 1..Len(dom) :
         dom[n].tag # "#text" => RenderedFrom(Children(n), dom[n].content)
    /\ (pass = 1 /\ line = FxNested) => dom = NestedTree

\* C6 witness: the nesting fixture rendered, two containers inside a third
C6_Witness ==
  /\ pc = "done" /\ pass = 1 /\ line = FxNested
  /\ Cardinality({ n \in 1..Len(dom) : dom[n].tag # "#text" /\ dom[n].parent = 1 }) = 2

\* ---------------------------------------------------------------- plain text
\* C7 as stated, on the non-empty leaf texts: rendering the leaf text of a
\* rendered line again gives one literal node holding that text, whatever
\* the line was.
C7_RerenderIsOneLiteral ==
  (pc = "done" /\ pass = 2 /\ line # <<>>) => dom = <<LiteralOf(line)>>

DelimiterFree(text) ==
  \A k \in 1..Len(text) : text[k] \notin DelimiterChars

\* C7 amended: rendering the leaf text of a rendered line again selects no
\* range and gives one literal node holding that text, provided the leaf text
\* is not empty and holds none of the delimiter characters ~ _ * + - ; for an
\* empty leaf text it gives no node at all.
C7_Idempotent ==
  (pc = "done" /\ pass = 2 /\ DelimiterFree(line)) =>
    dom = IF line = <<>> THEN <<>> ELSE <<LiteralOf(line)>>

\* C7 witness: a line whose markers were all stripped, rendered a second time
C7_Witness ==
  /\ pc = "done" /\ pass = 2
  /\ line # <<>> /\ DelimiterFree(line)
  /\ Len(source) >= Len(line) + 4
  /\ dom = <<LiteralOf(line)>>

\* C8 as stated: a text in which no rule's pattern matches is rendered as
\* one literal node holding the text.
C8_NoMatchIsOneLiteral ==
  (pc = "done" /\ Discover(line, 1) = <<>>) => dom = <<LiteralOf(line)>>

\* C8 amended: a non-empty text in which no rule's pattern matches is
\* rendered as one literal node holding the text and no styled container;
\* the empty text is rendered as no node at all.
C8_PassThrough ==
  (pc = "done" /\ Discover(line, 1) = <<>>) =>
    dom = IF line = <<>> THEN <<>> ELSE <<LiteralOf(line)>>

\* C8 witness: a rendered line with delimiter characters but no pair
C8_Witness ==
  /\ pc = "done" /\ pass = 1
  /\ Discover(line, 1) = <<>>
  /\ Cardinality({ k \in 1..Len(line) : line[k] \in DelimiterChars }) >= 3
  /\ dom = <<LiteralOf(line)>>

\* ---------------------------------------------------------------- ordering
\* the total order of the claim: start ascending, then length descending,
\* then rule-table position ascending
Before(a, b) ==
  \/ a.index < b.index
  \/ a.index = b.index /\ a.length > b.length
  \/ a.index = b.index /\ a.length = b.length /\ a.rule < b.rule

\* two candidates share a character position
SharePosition(a, b) ==
  \E o \in a.index..(a.index + a.length - 1) :
    b.index <= o /\ o < b.index + b.length

\* positions in ms of the greedy non-overlapping selection over ms, in order
GreedySelection(ms) ==
  LET RECURSIVE Walk(_, _)
      Walk(n, sel) ==
        IF n > Len(ms) THEN sel
        ELSE IF \E m \in sel : SharePosition(ms[m], ms[n])
             THEN Walk(n + 1, sel)
             ELSE Walk(n + 1, sel \cup {n})
  IN  Walk(1, {})

Elements(s) == { s[n] : n \in 1..Len(s) }

\* C9: in every invocation the candidates are considered in the order start
\* ascending, then length descending, then rule-table order; they are all
\* the discovered candidates; and the selected ranges are exactly the greedy
\* non-overlapping selection over that order.
C9_DeterministicOrder ==
  \A f \in Frames :
    /\ Len(f.allMatches) = Len(Discover(f.text, 1))
    /\ Elements(f.allMatches) = Elements(Discover(f.text, 1))
    /\ \A n \in 1..(Len(f.allMatches) - 1) :
         Before(f.allMatches[n], f.allMatches[n + 1])
    /\ LET sel == GreedySelection(f.allMatches)
       IN  /\ \A n \in 1..Len(f.allMatches) :
                IsSelected(f, f.allMatches[n]) <=> n \in sel
           /\ Elements(f.processedRanges) =
                { [start |-> f.allMatches[n].index,
                   end |-> f.allMatches[n].index + f.allMatches[n].length] :
                  n \in sel }
           /\ Len(f.processedRanges) = Cardinality(sel)

\* C9 witness: an invocation with a tie on the start offset, two selected
\* ranges and a discarded candidate
C9_Witness ==
  /\ pc = "run"
  /\ StrongEmPairs(Top) # {}
  /\ Len(Top.processedRanges) >= 2
  /\ Len(Top.allMatches) > Len(Top.processedRanges) + 1

\* no two candidates of one invocation agree on both start and length
NoFullTie ==
  \A f \in Frames : \A n, m \in 1..Len(f.allMatches) :
    (n # m /\ f.allMatches[n].index = f.allMatches[m].index)
      => f.allMatches[n].length # f.allMatches[m].length

\* ---------------------------------------------------------------- termination
\* every pending invocation scans a text strictly shorter than its caller's
PayloadShorter ==
  \A n \in 2..Len(stack) : Len(stack[n].text) < Len(stack[n - 1].text)

\* C10: every recursive call of applyRules is made on a payload strictly
\* shorter than the text of the calling invocation, the depth of the
\* recursion never exceeds the length of the line plus one, and every call
\* of parseAndRenderLine returns.
C10_Termination ==
  /\ [](PayloadShorter /\ Len(stack) <= Len(line) + 1)
  /\ [](pc = "run" <=> stack # <<>>)
  /\ (pc = "run") ~> (pc = "done")

\* C10 witness: three invocations of applyRules pending at once
C10_Witness ==
  /\ pc = "run"
  /\ Len(stack) >= 3
  /\ Len(Top.text) > 0

\* ---------------------------------------------------------------- empty payload
FourStars == <<"*", "*", "*", "*">>

\* C11: once a line is rendered, every styled container whose captured
\* payload is empty has no child node, and "****" is rendered as exactly one
\* strong container with no children: no emphasis container, no literal.
C11_EmptyPayload ==
  pc = "done" =>
    /\ \A n \in 1..Len(dom) :
         (dom[n].tag # "#text" /\ dom[n].content = <<>>) => Children(n) = <<>>
    /\ (pass = 1 /\ line = FourStars) =>
         dom = << [parent |-> 0, tag |-> "strong", style |-> "", text |-> <<>>,
                   content |-> <<>>] >>

\* C11 witness: "****" rendered as one container with an empty payload
C11_Witness ==
  /\ pc = "done" /\ pass = 1 /\ line = FourStars
  /\ Len(dom) = 1
  /\ dom[1].content = <<>>
  /\ Cardinality(removed) = 4

\* ---------------------------------------------------------------- font actions
\* Handlers run to completion between two requests: a step starts when the
\* answer to the request a handler awaits arrives and runs, through the
\* awaits of promises that are already resolved, up to its next request.
MaxHandlers == 2

\* the options of the dropdown: DEFAULT and the scanned font files
DropdownOptions == {DEFAULT} \cup FontFiles

Commit(i, m) ==
  /\ currentFontFamilyName' = m.name
  /\ styleEl' = m.styleEl
  /\ block' = m.block
  /\ restyles' = m.restyles
  /\ tasks' = [tasks EXCEPT ![i] = m.task]

\* dropdown onChange: the selection is stored and saveSettings is called
SelectFont ==
  /\ Len(tasks) < MaxHandlers
  /\ \E value \in DropdownOptions :
       /\ value # settings.selectedFontFile
       /\ settings' = [settings EXCEPT !.selectedFontFile = value]
  /\ tasks' = Append(tasks, NewTask("font"))
  /\ UNCHANGED <<currentFontFamilyName, styleEl, block, restyles, files>>
  /\ UNCHANGED <<resolverVars, timerVars>>

\* saveData is done: saveSettings goes on to loadAndApplyCustomFont
SaveDataDone ==
  \E i \in 1..Len(tasks) :
    /\ tasks[i].at = "saveData"
    /\ Commit(i, LoadStarted(Machine(tasks[i])))
    /\ UNCHANGED <<settings, files>>
    /\ UNCHANGED <<resolverVars, timerVars>>

ExistsDone ==
  \E i \in 1..Len(tasks) :
    /\ tasks[i].at = "exists"
    /\ Commit(i, ExistsAnswered(Machine(tasks[i])))
    /\ UNCHANGED <<settings, files>>
    /\ UNCHANGED <<resolverVars, timerVars>>

ReadBinaryDone ==
  \E i \in 1..Len(tasks) :
    /\ tasks[i].at = "readBinary"
    /\ Commit(i, ReadBinaryAnswered(Machine(tasks[i])))
    /\ UNCHANGED <<settings, files>>
    /\ UNCHANGED <<resolverVars, timerVars>>

\* a font file is deleted from the folder after the scan
RemoveFile ==
  /\ \E path \in files : files' = files \ {path}
  /\ UNCHANGED <<settings, currentFontFamilyName, styleEl, block, restyles, tasks>>
  /\ UNCHANGED <<resolverVars, timerVars>>

FontNext == SelectFont \/ SaveDataDone \/ ExistsDone \/ ReadBinaryDone \/ RemoveFile

FontSpec == Init /\ [][FontNext]_vars

\* ---------------------------------------------------------------- font claims
AllDone == \A i \in 1..Len(tasks) : tasks[i].at = "done"

\* the font state loadAndApplyCustomFont gives for the file fileName
LoadedFont(fileName) ==
  FontFaceCss(FontFamilyName(fileName), MimeType(Extension(fileName)),
              arrayBufferToBase64(Bytes(FontFilePath(settings.fontFolderPath, fileName))))

\* every scanned font file is still in the folder
NoFileRemoved == files = { FontFilePath(FontsFolder, f) : f \in FontFiles }

\* C12: once every handler has completed (and no font file was removed
\* meanwhile), the family name and the installed @font-face rule are those
\* of the finally selected file: none for DEFAULT, and for a font file its
\* own family name, type and bytes.
C12_FinalFont ==
  (tasks # <<>> /\ AllDone /\ NoFileRemoved) =>
    IF settings.selectedFontFile = DEFAULT
    THEN currentFontFamilyName = Null /\ styleEl = <<>>
    ELSE /\ currentFontFamilyName = FontFamilyName(settings.selectedFontFile)
         /\ styleEl = <<LoadedFont(settings.selectedFontFile)>>

FailedOutcomes == {"default", "missing", "unsupported", "error"}

\* the outcomes handler i adds in a step
NewOutcomes(i) ==
  SubSeq(tasks'[i].outcomes, Len(tasks[i].outcomes) + 1, Len(tasks'[i].outcomes))

\* C13: between the steps of the handlers the family name is non-null
\* exactly when the style element is installed; and a step in which a load
\* ends with a DEFAULT selection, a missing file, an unsupported extension or
\* a read error leaves the name null and the style element removed.
C13_FontStateConsistent ==
  /\ [](currentFontFamilyName # Null <=> styleEl # <<>>)
  /\ [][\A i \in 1..Len(tasks) :
          (\E o \in Elems(NewOutcomes(i)) : o \in FailedOutcomes) =>
            (currentFontFamilyName' = Null /\ styleEl' = <<>>)]_vars

\* C13 witness: a handler whose first load installed a font and whose second
\* load failed, leaving no font
C13_Witness ==
  /\ \E i \in 1..Len(tasks) :
       /\ Len(tasks[i].outcomes) = 2
       /\ tasks[i].outcomes[1] = "applied"
       /\ tasks[i].outcomes[2] \in {"missing", "error", "unsupported"}
  /\ AllDone
  /\ currentFontFamilyName = Null /\ styleEl = <<>>

\* ---------------------------------------------------------------- parseInt
\* StrWhiteSpaceChar, as far as a text field can hold it
WhiteSpace == {" ", "\t", "\n", "\r"}

HexLetters == <<"a", "b", "c", "d", "e", "f">>

\* the value of c as a digit, or 99 when it is none
DigitValue(c) ==
  IF \E k \in 1..Len(Digits) : Digits[k] = c
  THEN (CHOOSE k \in 1..Len(Digits) : Digits[k] = c) - 1
  ELSE LET l == ToLowerCase(<<c>>)[1]
       IN  IF \E k \in 1..Len(HexLetters) : HexLetters[k] = l
           THEN 9 + (CHOOSE k \in 1..Len(HexLetters) : HexLetters[k] = l)
           ELSE 99

\* text from offset from on
From(text, from) == SubSeq(text, from + 1, Len(text))

\* the number of leading characters of text that are in ok
LeadingCount(text, ok) ==
  LET stops == { k \in 1..Len(text) : text[k] \notin ok }
  IN  IF stops = {} THEN Len(text) ELSE Min(stops) - 1

RECURSIVE MathInt(_, _)
MathInt(ds, radix) ==
  IF ds = <<>> THEN 0
  ELSE MathInt(SubSeq(ds, 1, Len(ds) - 1), radix) * radix + DigitValue(ds[Len(ds)])

\* the first digits of 2^1024 - 2^970, from which on a decimal integer of 309
\* digits is rounded to Infinity
RoundsToInfinity ==
  <<"1", "7", "9", "7", "6", "9", "3", "1", "3", "4", "8", "6", "2", "3", "1", "5", "8">>

\* the decimal digits ds stand for an integer too large for a finite Number
TooLarge(ds) ==
  LET sig == From(ds, LeadingCount(ds, {"0"}))
      differ == { k \in 1..Len(RoundsToInfinity) : sig[k] # RoundsToInfinity[k] }
  IN  \/ Len(sig) > 309
      \/ /\ Len(sig) = 309
         /\ \/ differ = {}
            \/ DigitValue(sig[Min(differ)]) > DigitValue(RoundsToInfinity[Min(differ)])

\* parseInt(value), no radix given: leading white space is skipped, a sign is
\* taken, "0x" switches to radix 16, the longest run of digits is read and
\* anything after it is ignored; no digit at all gives NaN.  (Digit runs that
\* are finite but beyond the exact integers of a Number are left out of the
\* inputs.)
ParseInt(value) ==
  LET trimmed == From(value, LeadingCount(value, WhiteSpace))
      signed == trimmed # <<>> /\ trimmed[1] \in {"-", "+"}
      sign == IF signed /\ trimmed[1] = "-" THEN -1 ELSE 1
      unsigned == IF signed THEN From(trimmed, 1) ELSE trimmed
      hex == Len(unsigned) >= 2 /\ unsigned[1] = "0" /\ unsigned[2] \in {"x", "X"}
      radix == IF hex THEN 16 ELSE 10
      body == IF hex THEN From(unsigned, 2) ELSE unsigned
      digits == { c \in Elems(body) : DigitValue(c) < radix }
      Z == SubSeq(body, 1, LeadingCount(body, digits))
  IN  IF Z = <<>> THEN NaN
      ELSE IF radix = 10 /\ TooLarge(Z) THEN [Infinity EXCEPT !.n = sign]
      ELSE Num(sign * MathInt(Z, radix))

isNaN(x) == x.kind = "nan"

\* x > 0 for a number x
GreaterThanZero(x) == x.kind # "nan" /\ x.n > 0

\* ---------------------------------------------------------------- debounce
wait == 500

\* the clock advances by half the delay
Tick == wait \div 2

MaxTicks == 3

MaxCalls == 2

MaxValueLen == 1

\* what is typed into the font size field
ValueChars == {"0", "1", "a"}

ValuePx == <<"1", "2", "p", "x">>

ValueSpace == <<" ", "7">>

ValueFraction == <<"1", ".", "5">>

ValueHex == <<"0", "x", "1", "0">>

ValueNegative == <<"-", "1">>

ValueHuge == [k \in 1..309 |-> "9"]

SizeInputs ==
  (UNION { [1..n -> ValueChars] : n \in 0..MaxValueLen })
    \cup {ValuePx, ValueSpace, ValueFraction, ValueHex, ValueNegative, ValueHuge}

\* mutant: the pending timer is not cancelled
clearTimeoutForgotten(pending, id) == pending

\* clearTimeout(id): the timer id, if still pending, is cancelled
clearTimeout(pending, id) == { t \in pending : t.id # id }

\* The text field changes: the debounced function is called with its value.
\* The pending timer is cleared and a new one set, due after wait.
TypeSize ==
  /\ Len(calls) < MaxCalls
  /\ \E value \in SizeInputs :
       /\ timers' = clearTimeout(timers, timeout)
                      \cup {[id |-> Len(calls) + 1, due |-> now + wait, args |-> value]}
       /\ calls' = Append(calls, [time |-> now, args |-> value])
  /\ timeout' = Len(calls) + 1
  /\ UNCHANGED <<now, runs>>
  /\ UNCHANGED <<resolverVars, pluginVars>>

\* time passes (a timer that is due may run late, never early)
TimePasses ==
  /\ now < MaxTicks * Tick \/ \E t \in timers : t.due > now
  /\ now' = now + Tick
  /\ UNCHANGED <<timeout, timers, calls, runs>>
  /\ UNCHANGED <<resolverVars, pluginVars>>

\* A due timer runs the wrapped function: the font size update up to its
\* await of saveData, or its notice for an invalid value.
TimerFires ==
  /\ \E t \in timers :
       /\ t.due <= now
       /\ timers' = timers \ {t}
       /\ runs' = Append(runs, [time |-> now, args |-> t.args])
       /\ LET newSize == ParseInt(t.args)
          IN  IF ~isNaN(newSize) /\ GreaterThanZero(newSize)
              THEN /\ settings' = [settings EXCEPT !.fontSize = newSize]
                   /\ tasks' = Append(tasks, NewTask("size"))
              ELSE UNCHANGED <<settings, tasks>>
  /\ UNCHANGED <<now, timeout, calls>>
  /\ UNCHANGED <<currentFontFamilyName, styleEl, block, restyles, files>>
  /\ UNCHANGED resolverVars

TabNext == TypeSize \/ TimePasses \/ TimerFires \/ SaveDataDone

TabSpec == Init /\ [][TabNext]_vars

\* Time passes and the window runs the timers that are due: weak fairness of
\* TimePasses and of TimerFires, their enabling conditions written out.
TabFairSpec ==
  /\ Init /\ [][TabNext]_vars
  /\ \/ []<>(now >= MaxTicks * Tick /\ \A t \in timers : t.due <= now)
     \/ []<><<TimePasses>>_vars
  /\ \/ []<>(\A t \in timers : t.due > now)
     \/ []<><<TimerFires>>_vars

\* every call comes less than wait after the one before it
Burst ==
  \A k \in 2..Len(calls) : calls[k].time - calls[k - 1].time < wait

\* C14: at most one timer is pending at any time and a call leaves exactly
\* its own timer pending, cancelling the one before it; for calls that each
\* come less than wait after the previous one, the wrapped function does not
\* run while a timer is pending and, once none is, has run exactly once, with
\* the arguments of the last call and no earlier than wait after it; a pending
\* timer eventually runs.
C14_Debounce ==
  /\ [](Cardinality(timers) <= 1)
  /\ [][calls' # calls =>
          timers' = {[id |-> Len(calls'), due |-> now + wait,
                      args |-> calls'[Len(calls')].args]}]_vars
  /\ []((calls # <<>> /\ Burst) =>
          IF timers # {}
          THEN runs = <<>>
          ELSE /\ Len(runs) = 1
               /\ runs[1].args = calls[Len(calls)].args
               /\ runs[1].time >= calls[Len(calls)].time + wait)
  /\ (timers # {}) ~> (timers = {})

\* two calls, the second after the first and within wait of it with another
\* value, and the one run that follows
C14_Witness ==
  /\ Len(calls) = 2
  /\ Burst
  /\ calls[2].time > calls[1].time
  /\ calls[2].args # calls[1].args
  /\ timers = {}
  /\ Len(runs) = 1

PositiveInteger(x) == x.kind = "int" /\ x.n > 0

\* C15: settings.fontSize is a positive integer in every state; a run of the
\* debounced update sets it to the parsed value when that value is an integer
\* greater than 0 and otherwise leaves the settings alone, saves nothing and
\* restyles nothing; nothing else in the settings tab changes it.
C15_FontSizeValid ==
  /\ [](PositiveInteger(settings.fontSize))
  /\ [][runs' # runs =>
          LET newSize == ParseInt(runs'[Len(runs')].args)
          IN  IF PositiveInteger(newSize)
              THEN settings'.fontSize = newSize
              ELSE UNCHANGED <<settings, tasks, block, restyles>>]_vars
  /\ [][settings'.fontSize # settings.fontSize => runs' # runs]_vars

====
